---- MODULE Spec2Model ----
(***************************************************************************)
(* Upload-to-asset pipeline of the video service: the thumbnail upload     *)
(* handler (handler_upload_thumbnail.go) and the video upload handler with *)
(* probing, remuxing, object-store upload and presigning (the unnamed      *)
(* source part_000, which supersedes the shorter handler_upload_video.go   *)
(* and shares its first 88 lines with it).                                 *)
(*                                                                         *)
(* Every request is one goroutine.  Its position is pc[r], its local       *)
(* variables are loc[r], the responses it wrote are resp[r], and log[r]    *)
(* is the history of the calls it made to its collaborators (record store, *)
(* object store, file system, subprocesses) with their outcome.            *)
(*                                                                         *)
(* Strings are sequences of tokens; a token is a comma-free piece of text  *)
(* or the single character ",".  A *string (nullable) is <<>> for nil and  *)
(* <<s>> for a pointer to s.                                               *)
(***************************************************************************)
EXTENDS Integers, Sequences, FiniteSets, TLC

\* ---------------------------------------------------------------- bounds
NumRequests == 2
MaxLen == 3

Requests == 1..NumRequests

\* ------------------------------------------------------------- constants
StatusOK == 200
StatusBadRequest == 400
StatusUnauthorized == 401
StatusInternalServerError == 500

Users == {"alice", "bob"}
Owner == "alice"
TheVideoID == "vid"
s3Bucket == <<"tubely">>

NilPtr == <<>>
Ptr(s) == <<s>>
Deref(p) == p[1]

\* ------------------------------------------------------ string functions
Comma == ","

HasSep(s, sep) == \E i \in 1..Len(s) : s[i] = sep
FirstSep(s, sep) == CHOOSE i \in 1..Len(s) :
                        /\ s[i] = sep
                        /\ \A j \in 1..(i - 1) : s[j] # sep

\* strings.Split: every piece between separators, n+1 pieces for n separators
RECURSIVE Split(_, _)
Split(s, sep) ==
    IF ~HasSep(s, sep)
    THEN <<s>>
    ELSE LET i == FirstSep(s, sep)
         IN  <<SubSeq(s, 1, i - 1)>> \o Split(SubSeq(s, i + 1, Len(s)), sep)

\* variant: the two arguments in the opposite order
SprintfRefKeyFirst(bucket, key) == key \o <<Comma>> \o bucket

\* fmt.Sprintf("%s,%s", bucket, key)
SprintfRef(bucket, key) == bucket \o <<Comma>> \o key

\* filepath.Join(directory, key)
JoinPath(directory, key) == <<directory, "/">> \o key

\* ------------------------------------------------------------ data model
Video(thumb, vurl, upd) ==
    [id |-> TheVideoID, userID |-> Owner, thumbnailURL |-> thumb,
     videoURL |-> vurl, updatedAt |-> upd]

NoVideo == [id |-> "", userID |-> "", thumbnailURL |-> NilPtr,
            videoURL |-> NilPtr, updatedAt |-> 0]

\* ---------------------------------------------------- presigning (codec)
\* generatePresignedURL: the signer is a collaborator, ok is its outcome
generatePresignedURL(bucket, key, ok) ==
    IF ok
    THEN [url |-> <<"https://">> \o bucket \o <<".s3/">> \o key \o <<"?X-Amz-Signature">>,
          err |-> "", bucket |-> Ptr(bucket), key |-> Ptr(key)]
    ELSE [url |-> <<>>, err |-> "couldn't generate presigned URL",
          bucket |-> Ptr(bucket), key |-> Ptr(key)]

\* variant: the presigned URL is computed but the record is returned as read
dbVideoToSignedVideoNotReplaced(video, signOk) ==
    IF video.videoURL = NilPtr
    THEN [video |-> video, err |-> "", signed |-> FALSE,
          bucket |-> NilPtr, key |-> NilPtr]
    ELSE LET urlSlice == Split(Deref(video.videoURL), Comma)
         IN  IF Len(urlSlice) # 2
             THEN [video |-> video,
                   err |-> "video URL is not in the expected format",
                   signed |-> FALSE, bucket |-> NilPtr, key |-> NilPtr]
             ELSE LET p == generatePresignedURL(urlSlice[1], urlSlice[2], signOk)
                  IN  [video |-> video, err |-> p.err, signed |-> TRUE,
                       bucket |-> p.bucket, key |-> p.key]

\* variant: the signer's error is returned, but the URL is assigned first
dbVideoToSignedVideoAssignedOnError(video, signOk) ==
    IF video.videoURL = NilPtr
    THEN [video |-> video, err |-> "", signed |-> FALSE,
          bucket |-> NilPtr, key |-> NilPtr]
    ELSE LET urlSlice == Split(Deref(video.videoURL), Comma)
         IN  IF Len(urlSlice) # 2
             THEN [video |-> video,
                   err |-> "video URL is not in the expected format",
                   signed |-> FALSE, bucket |-> NilPtr, key |-> NilPtr]
             ELSE LET p == generatePresignedURL(urlSlice[1], urlSlice[2], signOk)
                  IN  [video |-> [video EXCEPT !.videoURL = Ptr(p.url)],
                       err |-> p.err, signed |-> TRUE,
                       bucket |-> p.bucket, key |-> p.key]

\* dbVideoToSignedVideo: video is passed by value, signOk is the signer's
\* outcome.  signed tells whether the signer was called, and with what.
dbVideoToSignedVideo(video, signOk) ==
    IF video.videoURL = NilPtr
    THEN [video |-> video, err |-> "", signed |-> FALSE,
          bucket |-> NilPtr, key |-> NilPtr]
    ELSE LET urlSlice == Split(Deref(video.videoURL), Comma)
         IN  IF Len(urlSlice) # 2
             THEN [video |-> video,
                   err |-> "video URL is not in the expected format",
                   signed |-> FALSE, bucket |-> NilPtr, key |-> NilPtr]
             ELSE LET p == generatePresignedURL(urlSlice[1], urlSlice[2], signOk)
                  IN  IF p.err # ""
                      THEN [video |-> video, err |-> p.err, signed |-> TRUE,
                            bucket |-> p.bucket, key |-> p.key]
                      ELSE [video |-> [video EXCEPT !.videoURL = Ptr(p.url)],
                            err |-> "", signed |-> TRUE,
                            bucket |-> p.bucket, key |-> p.key]

\* ------------------------------------------------------ external processes
\* What ffprobe can hand back: the command fails, its output is not JSON,
\* it lists no stream, or it lists a first stream of some width and height.
Dims == {<<9, 16>>, <<16, 9>>, <<1, 1>>, <<4, 0>>}
ProbeOutputs ==
    {[run |-> FALSE, json |-> FALSE, streams |-> <<>>],
     [run |-> TRUE, json |-> FALSE, streams |-> <<>>],
     [run |-> TRUE, json |-> TRUE, streams |-> <<>>]}
    \cup {[run |-> TRUE, json |-> TRUE, streams |-> <<d>>] : d \in Dims}

\* variant: the band tests use < and > where the code has <= and >=
getVideoAspectRatioStrict(probe) ==
    IF ~probe.run THEN [ratio |-> "", err |-> "ffprobe command failed"]
    ELSE IF ~probe.json THEN [ratio |-> "", err |-> "could not parse ffprobe output"]
    ELSE IF Len(probe.streams) = 0 THEN [ratio |-> "", err |-> "no video streams found"]
    ELSE LET width == probe.streams[1][1]
             height == probe.streams[1][2]
         IN  IF height = 0
             THEN [ratio |-> "", err |-> "video height is zero, cannot determine aspect ratio"]
             ELSE IF 80 * width > 41 * height /\ 80 * width < 49 * height
             THEN [ratio |-> "9:16", err |-> ""]
             ELSE IF 180 * width > 311 * height /\ 180 * width < 329 * height
             THEN [ratio |-> "16:9", err |-> ""]
             ELSE [ratio |-> "other", err |-> ""]

\* getVideoAspectRatio: width/height against 9/16 and 16/9, each +-0.05;
\* the comparisons are cross-multiplied (9/16-1/20 = 41/80, 9/16+1/20 = 49/80,
\* 16/9-1/20 = 311/180, 16/9+1/20 = 329/180).  In float64 the four sums
\* 0.5625-0.05, 0.5625+0.05, 16.0/9.0-0.05, 16.0/9.0+0.05 and the quotients
\* 41.0/80, 49.0/80, 311.0/180, 329.0/180 compare as >=, <=, >=, <=, so the
\* four bounds are inclusive as written here, and a quotient of integers
\* below 2^40 that is not on a bound is further from it than a rounding error.
getVideoAspectRatio(probe) ==
    IF ~probe.run THEN [ratio |-> "", err |-> "ffprobe command failed"]
    ELSE IF ~probe.json THEN [ratio |-> "", err |-> "could not parse ffprobe output"]
    ELSE IF Len(probe.streams) = 0 THEN [ratio |-> "", err |-> "no video streams found"]
    ELSE LET width == probe.streams[1][1]
             height == probe.streams[1][2]
         IN  IF height = 0
             THEN [ratio |-> "", err |-> "video height is zero, cannot determine aspect ratio"]
             ELSE IF 80 * width >= 41 * height /\ 80 * width <= 49 * height
             THEN [ratio |-> "9:16", err |-> ""]
             ELSE IF 180 * width >= 311 * height /\ 180 * width <= 329 * height
             THEN [ratio |-> "16:9", err |-> ""]
             ELSE [ratio |-> "other", err |-> ""]

\* the switch of handlerUploadVideo on the aspect ratio
Directory(aspectRatio) ==
    CASE aspectRatio = "9:16" -> "portrait"
      [] aspectRatio = "16:9" -> "landscape"
      [] OTHER -> "other"

\* What ffmpeg can leave behind: its exit status, and whether the output
\* file is there and how many bytes it holds (0: empty, 1: not empty).
RemuxOutcomes ==
    {[exit |-> e, present |-> p, size |-> z] :
        e \in BOOLEAN, p \in BOOLEAN, z \in {0, 1}} \
    {[exit |-> e, present |-> FALSE, size |-> 1] : e \in BOOLEAN}

\* variant: the error of cmd.Run is not tested
processVideoForFastStartExitIgnored(inputFilePath, out) ==
    LET processedFilePath == inputFilePath \o <<".processing">>
    IN  IF ~out.present THEN [path |-> <<>>, err |-> "couldn't stat processed file"]
        ELSE IF out.size = 0 THEN [path |-> <<>>, err |-> "processed file is empty"]
        ELSE [path |-> processedFilePath, err |-> ""]

\* variant: the empty-output test is missing
processVideoForFastStartNoSizeCheck(inputFilePath, out) ==
    LET processedFilePath == inputFilePath \o <<".processing">>
    IN  IF ~out.exit THEN [path |-> <<>>, err |-> "couldn't process video"]
        ELSE IF ~out.present THEN [path |-> <<>>, err |-> "couldn't stat processed file"]
        ELSE [path |-> processedFilePath, err |-> ""]

\* processVideoForFastStart: cmd.Run, os.Stat, Size() == 0
processVideoForFastStart(inputFilePath, out) ==
    LET processedFilePath == inputFilePath \o <<".processing">>
    IN  IF ~out.exit THEN [path |-> <<>>, err |-> "couldn't process video"]
        ELSE IF ~out.present THEN [path |-> <<>>, err |-> "couldn't stat processed file"]
        ELSE IF out.size = 0 THEN [path |-> <<>>, err |-> "processed file is empty"]
        ELSE [path |-> processedFilePath, err |-> ""]

\* ----------------------------------------------------- modelled from spec
\* extension of the fixed MIME-type-to-extension table
Extension(mediaType) ==
    CASE mediaType = "video/mp4" -> ".mp4"
      [] mediaType = "image/jpeg" -> ".jpeg"
      [] mediaType = "image/png" -> ".png"
      [] OTHER -> ".bin"

\* getAssetPath: <random-id>.<extension>; the random id of request r is
\* fresh for that request
getAssetPath(r, mediaType) == <<ToString(r), Extension(mediaType)>>
getAssetDiskPath(assetPath) == <<"assets/">> \o assetPath
getAssetURL(assetPath) == <<"http://localhost/assets/">> \o assetPath

\* record store: fetch(id) and update(record)
GetVideo(store, id) == store[id]
UpdateVideo(store, video) == [store EXCEPT ![video.id] = video]

\* ------------------------------------------------------------------ state
VARIABLES db, s3, disk, clock, pc, loc, resp, log, codec, classifier
vars == <<db, s3, disk, clock, pc, loc, resp, log, codec, classifier>>

TempPath(r) == <<"/tmp/tubely-upload.mp4", ToString(r)>>
ProcessedPath(r) == TempPath(r) \o <<".processing">>

\* before the subprocesses have run
NoProbe == [run |-> FALSE, json |-> FALSE, streams |-> <<>>]
NoRemux == [exit |-> FALSE, present |-> FALSE, size |-> 0]

NoLocals(k) ==
    [kind |-> k, userID |-> "", video |-> NoVideo, mediaType |-> "",
     tempOpen |-> FALSE, dstOpen |-> FALSE, s3FileKey |-> <<>>,
     processedFilePath |-> <<>>, assetPath |-> <<>>, defers |-> <<>>,
     probe |-> NoProbe, remux |-> NoRemux]

CodecIdle == [phase |-> "idle", bucket |-> <<>>, key |-> <<>>,
              stored |-> NilPtr, out |-> dbVideoToSignedVideo(NoVideo, TRUE)]

\* the record exists, nothing is uploaded yet, and the requests in kinds
\* have arrived
InitPipeline(kinds) ==
    /\ db = [id \in {TheVideoID} |-> Video(NilPtr, NilPtr, 0)]
    /\ s3 = {}
    /\ disk = {}
    /\ clock = 1
    /\ loc = [r \in Requests |-> NoLocals(kinds[r])]
    /\ pc = [r \in Requests |->
                IF kinds[r] = "video" THEN "V_ParseID" ELSE "T_ParseID"]
    /\ resp = [r \in Requests |-> <<>>]
    /\ log = [r \in Requests |-> <<>>]

\* the classifier before it has been given a stream
ClassifierIdle == [phase |-> "idle", width |-> 0, height |-> 0,
                   ratio |-> "", err |-> "", key |-> NilPtr]

Init ==
    /\ \E kinds \in [Requests -> {"video", "thumbnail"}] : InitPipeline(kinds)
    /\ codec = CodecIdle
    /\ classifier = ClassifierIdle

\* ---------------------------------------------------------------- helpers
Logged(r, op, ok) == [log EXCEPT ![r] = Append(@, [op |-> op, ok |-> ok])]
Goto(r, label) == [pc EXCEPT ![r] = label]

respondWithError(r, code, msg) ==
    [resp EXCEPT ![r] = Append(@, [status |-> code, msg |-> msg, video |-> NoVideo])]
respondWithJSON(r, code, video) ==
    [resp EXCEPT ![r] = Append(@, [status |-> code, msg |-> "", video |-> video])]

\* respondWithError(...); return
Fail(r, code, msg) ==
    /\ resp' = respondWithError(r, code, msg)
    /\ pc' = Goto(r, "Return")

Defer(r, d) == [loc EXCEPT ![r].defers = Append(@, d)]

Exists(path) == \E f \in disk : f.path = path
WriteFile(files, path, size) ==
    {f \in files : f.path # path} \cup {[path |-> path, size |-> size]}
RemoveFile(files, path) == {f \in files : f.path # path}

\* ------------------------------------------------- handlerUploadVideo
\* uuid.Parse(r.PathValue("videoID"))
VParseID(r) ==
    /\ pc[r] = "V_ParseID"
    /\ \E ok \in BOOLEAN :
         /\ log' = Logged(r, "uuid.Parse", ok)
         /\ IF ok
            THEN pc' = Goto(r, "V_GetBearerToken") /\ UNCHANGED resp
            ELSE Fail(r, StatusBadRequest, "Invalid ID")
    /\ UNCHANGED <<db, s3, disk, clock, loc, codec, classifier>>

\* auth.GetBearerToken(r.Header)
VGetBearerToken(r) ==
    /\ pc[r] = "V_GetBearerToken"
    /\ \E ok \in BOOLEAN :
         /\ log' = Logged(r, "GetBearerToken", ok)
         /\ IF ok
            THEN pc' = Goto(r, "V_ValidateJWT") /\ UNCHANGED resp
            ELSE Fail(r, StatusUnauthorized, "Couldn't find JWT")
    /\ UNCHANGED <<db, s3, disk, clock, loc, codec, classifier>>

\* variant: the error of ValidateJWT is not tested
VValidateJWTErrIgnored(r) ==
    /\ pc[r] = "V_ValidateJWT"
    /\ \/ /\ log' = Logged(r, "ValidateJWT", FALSE)
          /\ UNCHANGED loc
       \/ \E u \in Users :
            /\ log' = Logged(r, "ValidateJWT", TRUE)
            /\ loc' = [loc EXCEPT ![r].userID = u]
    /\ pc' = Goto(r, "V_GetVideo")
    /\ UNCHANGED <<db, s3, disk, clock, resp, codec, classifier>>

\* auth.ValidateJWT(token, cfg.jwtSecret)
VValidateJWT(r) ==
    /\ pc[r] = "V_ValidateJWT"
    /\ \/ /\ log' = Logged(r, "ValidateJWT", FALSE)
          /\ Fail(r, StatusUnauthorized, "Couldn't validate JWT")
          /\ UNCHANGED loc
       \/ \E u \in Users :
            /\ log' = Logged(r, "ValidateJWT", TRUE)
            /\ loc' = [loc EXCEPT ![r].userID = u]
            /\ pc' = Goto(r, "V_GetVideo")
            /\ UNCHANGED resp
    /\ UNCHANGED <<db, s3, disk, clock, codec, classifier>>

\* cfg.db.GetVideo(videoID)
VGetVideo(r) ==
    /\ pc[r] = "V_GetVideo"
    /\ \E ok \in BOOLEAN :
         /\ log' = Logged(r, "GetVideo", ok)
         /\ IF ok
            THEN /\ loc' = [loc EXCEPT ![r].video = GetVideo(db, TheVideoID)]
                 /\ pc' = Goto(r, "V_CheckOwner")
                 /\ UNCHANGED resp
            ELSE /\ Fail(r, StatusInternalServerError, "Couldn't get video from database")
                 /\ UNCHANGED loc
    /\ UNCHANGED <<db, s3, disk, clock, codec, classifier>>

\* variant: the ownership comparison is missing
VCheckOwnerSkipped(r) ==
    /\ pc[r] = "V_CheckOwner"
    /\ pc' = Goto(r, "V_FormFile")
    /\ UNCHANGED <<db, s3, disk, clock, loc, resp, log, codec, classifier>>

\* if video.UserID != userID
VCheckOwner(r) ==
    /\ pc[r] = "V_CheckOwner"
    /\ IF loc[r].video.userID # loc[r].userID
       THEN Fail(r, StatusUnauthorized, "User is not the owner of the video")
       ELSE pc' = Goto(r, "V_FormFile") /\ UNCHANGED resp
    /\ UNCHANGED <<db, s3, disk, clock, loc, log, codec, classifier>>

\* r.FormFile("video"); defer videoFile.Close()
VFormFile(r) ==
    /\ pc[r] = "V_FormFile"
    /\ \E ok \in BOOLEAN :
         /\ log' = Logged(r, "FormFile", ok)
         /\ IF ok
            THEN /\ loc' = Defer(r, "videoFile.Close")
                 /\ pc' = Goto(r, "V_MediaType")
                 /\ UNCHANGED resp
            ELSE /\ Fail(r, StatusBadRequest, "Couldn't parse video form")
                 /\ UNCHANGED loc
    /\ UNCHANGED <<db, s3, disk, clock, codec, classifier>>

\* the Content-Type headers a file part can carry ("" : none)
ContentTypes == {"", "video/mp4", "image/jpeg", "image/png", "image/gif"}

\* mime.ParseMediaType(header); mediaType != "video/mp4"
VMediaType(r) ==
    /\ pc[r] = "V_MediaType"
    /\ \E header \in ContentTypes :
         IF header = ""
         THEN /\ log' = Logged(r, "ParseMediaType", FALSE)
              /\ Fail(r, StatusBadRequest, "Couldn't parse media type")
              /\ UNCHANGED loc
         ELSE /\ log' = Logged(r, "ParseMediaType", TRUE)
              /\ loc' = [loc EXCEPT ![r].mediaType = header]
              /\ IF header # "video/mp4"
                 THEN Fail(r, StatusBadRequest, "Invalid media type")
                 ELSE pc' = Goto(r, "V_CreateTemp") /\ UNCHANGED resp
    /\ UNCHANGED <<db, s3, disk, clock, codec, classifier>>

\* variant: the two defer statements in the opposite order
TempFileDefersSwapped == <<"tempFile.Close", "os.Remove(tempFile)">>

\* the deferred calls registered after os.CreateTemp, in program order
TempFileDefers == <<"os.Remove(tempFile)", "tempFile.Close">>

\* os.CreateTemp("", "tubely-upload.mp4"); defer os.Remove; defer Close
VCreateTemp(r) ==
    /\ pc[r] = "V_CreateTemp"
    /\ \E ok \in BOOLEAN :
         /\ log' = Logged(r, "CreateTemp", ok)
         /\ IF ok
            THEN /\ disk' = WriteFile(disk, TempPath(r), 0)
                 /\ loc' = [loc EXCEPT ![r].tempOpen = TRUE,
                                       ![r].defers = @ \o TempFileDefers]
                 /\ pc' = Goto(r, "V_Copy")
                 /\ UNCHANGED resp
            ELSE /\ Fail(r, StatusInternalServerError, "Couldn't create temporary video file")
                 /\ UNCHANGED <<disk, loc>>
    /\ UNCHANGED <<db, s3, clock, codec, classifier>>

\* io.Copy(tempFile, videoFile)
VCopy(r) ==
    /\ pc[r] = "V_Copy"
    /\ \E ok \in BOOLEAN :
         /\ log' = Logged(r, "Copy", ok)
         /\ IF ok
            THEN /\ disk' = WriteFile(disk, TempPath(r), 1)
                 /\ pc' = Goto(r, "V_Seek")
                 /\ UNCHANGED resp
            ELSE /\ Fail(r, StatusInternalServerError, "Couldn't save video")
                 /\ UNCHANGED disk
    /\ UNCHANGED <<db, s3, clock, loc, codec, classifier>>

\* tempFile.Seek(0, io.SeekStart)
VSeek(r) ==
    /\ pc[r] = "V_Seek"
    /\ \E ok \in BOOLEAN :
         /\ log' = Logged(r, "Seek", ok)
         /\ IF ok
            THEN pc' = Goto(r, "V_AspectRatio") /\ UNCHANGED resp
            ELSE Fail(r, StatusInternalServerError, "Couldn't reset file pointer")
    /\ UNCHANGED <<db, s3, disk, clock, loc, codec, classifier>>

\* the directory switch; s3FileKey = filepath.Join(directory, getAssetPath(mediaType))
s3FileKeyOf(r, aspectRatio, mediaType) ==
    JoinPath(Directory(aspectRatio), getAssetPath(r, mediaType))

\* getVideoAspectRatio(tempFile.Name()); the directory switch;
\* s3FileKey = filepath.Join(directory, getAssetPath(mediaType))
VAspectRatio(r) ==
    /\ pc[r] = "V_AspectRatio"
    /\ \E probe \in ProbeOutputs :
         LET a == getVideoAspectRatio(probe)
         IN  IF a.err # ""
             THEN /\ log' = Logged(r, "ffprobe", FALSE)
                  /\ Fail(r, StatusInternalServerError, "Couldn't get video aspect ratio")
                  /\ loc' = [loc EXCEPT ![r].probe = probe]
             ELSE /\ log' = Logged(r, "ffprobe", TRUE)
                  /\ loc' = [loc EXCEPT ![r].probe = probe,
                                        ![r].s3FileKey =
                                s3FileKeyOf(r, a.ratio, loc[r].mediaType)]
                  /\ pc' = Goto(r, "V_FastStart")
                  /\ UNCHANGED resp
    /\ UNCHANGED <<db, s3, disk, clock, codec, classifier>>

\* processVideoForFastStart(tempFile.Name()); defer os.Remove(processedFilePath)
VFastStart(r) ==
    /\ pc[r] = "V_FastStart"
    /\ \E out \in RemuxOutcomes :
         LET p == processVideoForFastStart(TempPath(r), out)
         IN  /\ disk' = IF out.present
                        THEN WriteFile(disk, ProcessedPath(r), out.size)
                        ELSE disk
             /\ IF p.err # ""
                THEN /\ log' = Logged(r, "ffmpeg", out.exit)
                     /\ Fail(r, StatusInternalServerError, "Couldn't process video for fast start")
                     /\ loc' = [loc EXCEPT ![r].remux = out]
                ELSE /\ log' = Logged(r, "ffmpeg", out.exit)
                     /\ loc' = [loc EXCEPT ![r].remux = out,
                                           ![r].processedFilePath = p.path,
                                           ![r].defers = Append(@, "os.Remove(processed)")]
                     /\ pc' = Goto(r, "V_Open")
                     /\ UNCHANGED resp
    /\ UNCHANGED <<db, s3, clock, codec, classifier>>

\* os.Open(processedFilePath); defer processedFile.Close()
VOpen(r) ==
    /\ pc[r] = "V_Open"
    /\ \E ok \in BOOLEAN :
         /\ log' = Logged(r, "Open", ok)
         /\ IF ok
            THEN /\ loc' = Defer(r, "processedFile.Close")
                 /\ pc' = Goto(r, "V_PutObject")
                 /\ UNCHANGED resp
            ELSE /\ Fail(r, StatusInternalServerError, "Couldn't open processed video file")
                 /\ UNCHANGED loc
    /\ UNCHANGED <<db, s3, disk, clock, codec, classifier>>

\* variant: the record is updated before the object is put
VPutObjectAfterUpdate(r) ==
    /\ pc[r] = "V_PutObject"
    /\ LET video == [loc[r].video EXCEPT
                       !.videoURL = Ptr(SprintfRef(s3Bucket, loc[r].s3FileKey))]
       IN  /\ db' = UpdateVideo(db, video)
           /\ loc' = [loc EXCEPT ![r].video = video]
           /\ \E ok \in BOOLEAN :
                /\ log' = [log EXCEPT ![r] = @ \o <<[op |-> "UpdateVideo", ok |-> TRUE],
                                                    [op |-> "PutObject", ok |-> ok]>>]
                /\ IF ok
                   THEN /\ s3' = s3 \cup {[bucket |-> s3Bucket, key |-> loc[r].s3FileKey,
                                           contentType |-> loc[r].mediaType]}
                        /\ pc' = Goto(r, "V_UpdateVideo")
                        /\ UNCHANGED resp
                   ELSE /\ Fail(r, StatusInternalServerError, "Couldn't upload video to S3")
                        /\ UNCHANGED s3
    /\ UNCHANGED <<disk, clock, codec, classifier>>

\* variant: the error of PutObject is not tested
VPutObjectErrIgnored(r) ==
    /\ pc[r] = "V_PutObject"
    /\ \E ok \in BOOLEAN :
         /\ log' = Logged(r, "PutObject", ok)
         /\ s3' = IF ok
                  THEN s3 \cup {[bucket |-> s3Bucket, key |-> loc[r].s3FileKey,
                                 contentType |-> loc[r].mediaType]}
                  ELSE s3
         /\ pc' = Goto(r, "V_UpdateVideo")
    /\ UNCHANGED <<db, disk, clock, loc, resp, codec, classifier>>

\* cfg.s3Client.PutObject(ctx, {Bucket, Key, Body, ContentType})
VPutObject(r) ==
    /\ pc[r] = "V_PutObject"
    /\ \E ok \in BOOLEAN :
         /\ log' = Logged(r, "PutObject", ok)
         /\ IF ok
            THEN /\ s3' = s3 \cup {[bucket |-> s3Bucket, key |-> loc[r].s3FileKey,
                                    contentType |-> loc[r].mediaType]}
                 /\ pc' = Goto(r, "V_UpdateVideo")
                 /\ UNCHANGED resp
            ELSE /\ Fail(r, StatusInternalServerError, "Couldn't upload video to S3")
                 /\ UNCHANGED s3
    /\ UNCHANGED <<db, disk, clock, loc, codec, classifier>>

\* variant: the record is written only while it has no video yet
VUpdateVideoFirstWins(r) ==
    /\ pc[r] = "V_UpdateVideo"
    /\ LET s3VideoURL == SprintfRef(s3Bucket, loc[r].s3FileKey)
           video == [loc[r].video EXCEPT !.videoURL = Ptr(s3VideoURL)]
       IN  /\ loc' = [loc EXCEPT ![r].video = video]
           /\ \E ok \in BOOLEAN :
                /\ log' = Logged(r, "UpdateVideo", ok)
                /\ IF ok
                   THEN /\ db' = IF GetVideo(db, video.id).videoURL = NilPtr
                                 THEN UpdateVideo(db, video) ELSE db
                        /\ pc' = Goto(r, "V_Sign")
                        /\ UNCHANGED resp
                   ELSE /\ Fail(r, StatusInternalServerError, "Couldn't update video in database")
                        /\ UNCHANGED db
    /\ UNCHANGED <<s3, disk, clock, codec, classifier>>

\* video.VideoURL = &"<bucket>,<key>"; cfg.db.UpdateVideo(video)
VUpdateVideo(r) ==
    /\ pc[r] = "V_UpdateVideo"
    /\ LET s3VideoURL == SprintfRef(s3Bucket, loc[r].s3FileKey)
           video == [loc[r].video EXCEPT !.videoURL = Ptr(s3VideoURL)]
       IN  /\ loc' = [loc EXCEPT ![r].video = video]
           /\ \E ok \in BOOLEAN :
                /\ log' = Logged(r, "UpdateVideo", ok)
                /\ IF ok
                   THEN /\ db' = UpdateVideo(db, video)
                        /\ pc' = Goto(r, "V_Sign")
                        /\ UNCHANGED resp
                   ELSE /\ Fail(r, StatusInternalServerError, "Couldn't update video in database")
                        /\ UNCHANGED db
    /\ UNCHANGED <<s3, disk, clock, codec, classifier>>

\* variant: the error branch answers and does not return
VSignNoReturn(r) ==
    /\ pc[r] = "V_Sign"
    /\ \E signOk \in BOOLEAN :
         LET sv == dbVideoToSignedVideo(loc[r].video, signOk)
             answer == [status |-> StatusOK, msg |-> "", video |-> sv.video]
         IN  /\ log' = IF sv.signed THEN Logged(r, "Presign", sv.err = "") ELSE log
             /\ pc' = Goto(r, "Return")
             /\ IF sv.err # ""
                THEN resp' = [respondWithError(r, StatusInternalServerError,
                                  "Couldn't convert video to signed video")
                                EXCEPT ![r] = Append(@, answer)]
                ELSE resp' = respondWithJSON(r, StatusOK, sv.video)
    /\ UNCHANGED <<db, s3, disk, clock, loc, codec, classifier>>

\* cfg.dbVideoToSignedVideo(video); respondWithJSON(w, 200, presignedVideo)
VSign(r) ==
    /\ pc[r] = "V_Sign"
    /\ \E signOk \in BOOLEAN :
         LET sv == dbVideoToSignedVideo(loc[r].video, signOk)
         IN  /\ log' = IF sv.signed THEN Logged(r, "Presign", sv.err = "") ELSE log
             /\ IF sv.err # ""
                THEN Fail(r, StatusInternalServerError, "Couldn't convert video to signed video")
                ELSE /\ resp' = respondWithJSON(r, StatusOK, sv.video)
                     /\ pc' = Goto(r, "Return")
    /\ UNCHANGED <<db, s3, disk, clock, loc, codec, classifier>>

\* ------------------------------------------------------ function return
\* one deferred call, last registered first
RunDeferred(r) ==
    /\ pc[r] = "Return"
    /\ loc[r].defers # <<>>
    /\ LET n == Len(loc[r].defers)
           d == loc[r].defers[n]
           rest == SubSeq(loc[r].defers, 1, n - 1)
       IN  /\ log' = Logged(r, d, TRUE)
           /\ loc' = [loc EXCEPT ![r].defers = rest,
                                 ![r].tempOpen = IF d = "tempFile.Close" THEN FALSE ELSE @,
                                 ![r].dstOpen = IF d = "dst.Close" THEN FALSE ELSE @]
           /\ disk' = CASE d = "os.Remove(tempFile)" -> RemoveFile(disk, TempPath(r))
                        [] d = "os.Remove(processed)" ->
                               RemoveFile(disk, loc[r].processedFilePath)
                        [] OTHER -> disk
    /\ UNCHANGED <<db, s3, clock, pc, resp, codec, classifier>>

\* the handler has returned
Finish(r) ==
    /\ pc[r] = "Return"
    /\ loc[r].defers = <<>>
    /\ pc' = Goto(r, "Done")
    /\ UNCHANGED <<db, s3, disk, clock, loc, resp, log, codec, classifier>>

\* ----------------------------------------------- handlerUploadThumbnail
\* uuid.Parse(r.PathValue("videoID"))
TParseID(r) ==
    /\ pc[r] = "T_ParseID"
    /\ \E ok \in BOOLEAN :
         /\ log' = Logged(r, "uuid.Parse", ok)
         /\ IF ok
            THEN pc' = Goto(r, "T_GetBearerToken") /\ UNCHANGED resp
            ELSE Fail(r, StatusBadRequest, "Invalid ID")
    /\ UNCHANGED <<db, s3, disk, clock, loc, codec, classifier>>

\* auth.GetBearerToken(r.Header)
TGetBearerToken(r) ==
    /\ pc[r] = "T_GetBearerToken"
    /\ \E ok \in BOOLEAN :
         /\ log' = Logged(r, "GetBearerToken", ok)
         /\ IF ok
            THEN pc' = Goto(r, "T_ValidateJWT") /\ UNCHANGED resp
            ELSE Fail(r, StatusUnauthorized, "Couldn't find JWT")
    /\ UNCHANGED <<db, s3, disk, clock, loc, codec, classifier>>

\* auth.ValidateJWT(token, cfg.jwtSecret)
TValidateJWT(r) ==
    /\ pc[r] = "T_ValidateJWT"
    /\ \/ /\ log' = Logged(r, "ValidateJWT", FALSE)
          /\ Fail(r, StatusUnauthorized, "Couldn't validate JWT")
          /\ UNCHANGED loc
       \/ \E u \in Users :
            /\ log' = Logged(r, "ValidateJWT", TRUE)
            /\ loc' = [loc EXCEPT ![r].userID = u]
            /\ pc' = Goto(r, "T_ParseMultipartForm")
            /\ UNCHANGED resp
    /\ UNCHANGED <<db, s3, disk, clock, codec, classifier>>

\* r.ParseMultipartForm(maxMemory)
TParseMultipartForm(r) ==
    /\ pc[r] = "T_ParseMultipartForm"
    /\ \E ok \in BOOLEAN :
         /\ log' = Logged(r, "ParseMultipartForm", ok)
         /\ IF ok
            THEN pc' = Goto(r, "T_FormFile") /\ UNCHANGED resp
            ELSE Fail(r, StatusBadRequest, "Couldn't parse form")
    /\ UNCHANGED <<db, s3, disk, clock, loc, codec, classifier>>

\* r.FormFile("thumbnail"); defer file.Close()
TFormFile(r) ==
    /\ pc[r] = "T_FormFile"
    /\ \E ok \in BOOLEAN :
         /\ log' = Logged(r, "FormFile", ok)
         /\ IF ok
            THEN /\ loc' = Defer(r, "file.Close")
                 /\ pc' = Goto(r, "T_MediaType")
                 /\ UNCHANGED resp
            ELSE /\ Fail(r, StatusBadRequest, "Couldn't get file")
                 /\ UNCHANGED loc
    /\ UNCHANGED <<db, s3, disk, clock, codec, classifier>>

\* variant: image/gif is let through as well
InvalidThumbnailTypeGifAllowed(mediaType) ==
    mediaType # "image/jpeg" /\ mediaType # "image/png" /\ mediaType # "image/gif"

\* mediaType != "image/jpeg" && mediaType != "image/png"
InvalidThumbnailType(mediaType) ==
    mediaType # "image/jpeg" /\ mediaType # "image/png"

\* header.Header.Get("Content-Type"): missing, or not an accepted image type
TMediaType(r) ==
    /\ pc[r] = "T_MediaType"
    /\ \E header \in ContentTypes :
         /\ loc' = [loc EXCEPT ![r].mediaType = header]
         /\ IF header = ""
            THEN Fail(r, StatusBadRequest, "Missing Content-Type for thumbnail")
            ELSE IF InvalidThumbnailType(header)
            THEN Fail(r, StatusBadRequest, "Invalid file type")
            ELSE pc' = Goto(r, "T_Create") /\ UNCHANGED resp
    /\ UNCHANGED <<db, s3, disk, clock, log, codec, classifier>>

\* getAssetPath; cfg.getAssetDiskPath; os.Create(assetDiskPath); defer dst.Close()
TCreate(r) ==
    /\ pc[r] = "T_Create"
    /\ LET assetPath == getAssetPath(r, loc[r].mediaType)
       IN  \E ok \in BOOLEAN :
             /\ log' = Logged(r, "Create", ok)
             /\ IF ok
                THEN /\ disk' = WriteFile(disk, getAssetDiskPath(assetPath), 0)
                     /\ loc' = [loc EXCEPT ![r].assetPath = assetPath,
                                           ![r].dstOpen = TRUE,
                                           ![r].defers = Append(@, "dst.Close")]
                     /\ pc' = Goto(r, "T_Copy")
                     /\ UNCHANGED resp
                ELSE /\ loc' = [loc EXCEPT ![r].assetPath = assetPath]
                     /\ Fail(r, StatusInternalServerError, "Couldn't create file on server")
                     /\ UNCHANGED disk
    /\ UNCHANGED <<db, s3, clock, codec, classifier>>

\* io.Copy(dst, file)
TCopy(r) ==
    /\ pc[r] = "T_Copy"
    /\ \E ok \in BOOLEAN :
         /\ log' = Logged(r, "Copy", ok)
         /\ IF ok
            THEN /\ disk' = WriteFile(disk, getAssetDiskPath(loc[r].assetPath), 1)
                 /\ pc' = Goto(r, "T_GetVideo")
                 /\ UNCHANGED resp
            ELSE /\ Fail(r, StatusInternalServerError, "Couldn't save file")
                 /\ UNCHANGED disk
    /\ UNCHANGED <<db, s3, clock, loc, codec, classifier>>

\* cfg.db.GetVideo(videoID)
TGetVideo(r) ==
    /\ pc[r] = "T_GetVideo"
    /\ \E ok \in BOOLEAN :
         /\ log' = Logged(r, "GetVideo", ok)
         /\ IF ok
            THEN /\ loc' = [loc EXCEPT ![r].video = GetVideo(db, TheVideoID)]
                 /\ pc' = Goto(r, "T_CheckOwner")
                 /\ UNCHANGED resp
            ELSE /\ Fail(r, StatusInternalServerError, "Couldn't get video from database")
                 /\ UNCHANGED loc
    /\ UNCHANGED <<db, s3, disk, clock, codec, classifier>>

\* if video.UserID != userID
TCheckOwner(r) ==
    /\ pc[r] = "T_CheckOwner"
    /\ IF loc[r].video.userID # loc[r].userID
       THEN Fail(r, StatusUnauthorized, "User is not the owner of the video")
       ELSE pc' = Goto(r, "T_UpdateVideo") /\ UNCHANGED resp
    /\ UNCHANGED <<db, s3, disk, clock, loc, log, codec, classifier>>

\* variant: only the thumbnail fields of the stored record are written
TUpdateVideoThumbnailOnly(r) ==
    /\ pc[r] = "T_UpdateVideo"
    /\ LET thumbnailUrl == getAssetURL(loc[r].assetPath)
           video == [loc[r].video EXCEPT !.thumbnailURL = Ptr(thumbnailUrl),
                                         !.updatedAt = clock]
       IN  /\ loc' = [loc EXCEPT ![r].video = video]
           /\ clock' = clock + 1
           /\ \E ok \in BOOLEAN :
                /\ log' = Logged(r, "UpdateVideo", ok)
                /\ IF ok
                   THEN /\ db' = [db EXCEPT ![video.id].thumbnailURL = Ptr(thumbnailUrl),
                                            ![video.id].updatedAt = clock]
                        /\ resp' = respondWithJSON(r, StatusOK, video)
                        /\ pc' = Goto(r, "Return")
                   ELSE /\ Fail(r, StatusInternalServerError, "Couldn't update video in database")
                        /\ UNCHANGED db
    /\ UNCHANGED <<s3, disk, codec, classifier>>

\* video.ThumbnailURL = &url; video.UpdatedAt = time.Now();
\* cfg.db.UpdateVideo(video); respondWithJSON(w, 200, video)
TUpdateVideo(r) ==
    /\ pc[r] = "T_UpdateVideo"
    /\ LET thumbnailUrl == getAssetURL(loc[r].assetPath)
           video == [loc[r].video EXCEPT !.thumbnailURL = Ptr(thumbnailUrl),
                                         !.updatedAt = clock]
       IN  /\ loc' = [loc EXCEPT ![r].video = video]
           /\ clock' = clock + 1
           /\ \E ok \in BOOLEAN :
                /\ log' = Logged(r, "UpdateVideo", ok)
                /\ IF ok
                   THEN /\ db' = UpdateVideo(db, video)
                        /\ resp' = respondWithJSON(r, StatusOK, video)
                        /\ pc' = Goto(r, "Return")
                   ELSE /\ Fail(r, StatusInternalServerError, "Couldn't update video in database")
                        /\ UNCHANGED db
    /\ UNCHANGED <<s3, disk, codec, classifier>>

ThumbnailStep(r) ==
    \/ TParseID(r) \/ TGetBearerToken(r) \/ TValidateJWT(r)
    \/ TParseMultipartForm(r) \/ TFormFile(r) \/ TMediaType(r) \/ TCreate(r)
    \/ TCopy(r) \/ TGetVideo(r) \/ TCheckOwner(r) \/ TUpdateVideo(r)

VideoStep(r) ==
    \/ VParseID(r) \/ VGetBearerToken(r) \/ VValidateJWT(r) \/ VGetVideo(r)
    \/ VCheckOwner(r) \/ VFormFile(r) \/ VMediaType(r) \/ VCreateTemp(r)
    \/ VCopy(r) \/ VSeek(r) \/ VAspectRatio(r) \/ VFastStart(r) \/ VOpen(r)
    \/ VPutObject(r) \/ VUpdateVideo(r) \/ VSign(r)

Next ==
    \E r \in Requests :
        VideoStep(r) \/ ThumbnailStep(r) \/ RunDeferred(r) \/ Finish(r)

Spec == Init /\ [][Next]_vars

\* net/http runs every accepted request in a goroutine of its own and the Go
\* scheduler starves none: a handler that can take a step takes it
Step(r) == VideoStep(r) \/ ThumbnailStep(r) \/ RunDeferred(r) \/ Finish(r)

SpecFair == Spec /\ \A r \in Requests : WF_vars(Step(r))

\* ------------------------------------------- the reference codec alone
\* The codec as a function of its input: either a (bucket, key) pair that
\* the upload encodes (line 149) or a value found in the record store, then
\* dbVideoToSignedVideo applied to the stored value.
Alphabet == {"b", "k", Comma}
RECURSIVE StringsOfLen(_)
StringsOfLen(n) ==
    IF n = 0 THEN {<<>>}
    ELSE {Append(t, c) : t \in StringsOfLen(n - 1), c \in Alphabet}
Strings == UNION {StringsOfLen(n) : n \in 0..MaxLen}

InitCodec ==
    /\ InitPipeline([r \in Requests |-> "video"])
    /\ classifier = ClassifierIdle
    /\ \/ \E b \in Strings, k \in Strings :
            codec = [CodecIdle EXCEPT !.phase = "pair", !.bucket = b, !.key = k]
       \/ \E v \in {NilPtr} \cup {Ptr(t) : t \in Strings} :
            codec = [CodecIdle EXCEPT !.phase = "stored", !.stored = v]

\* s3VideoURL := fmt.Sprintf("%s,%s", bucket, key); video.VideoURL = &s3VideoURL
CodecEncode ==
    /\ codec.phase = "pair"
    /\ codec' = [codec EXCEPT !.phase = "encoded",
                              !.stored = Ptr(SprintfRef(codec.bucket, codec.key))]
    /\ UNCHANGED <<db, s3, disk, clock, pc, loc, resp, log, classifier>>

\* dbVideoToSignedVideo on a record holding the stored value
CodecSign ==
    /\ codec.phase \in {"encoded", "stored"}
    /\ \E signOk \in BOOLEAN :
         codec' = [codec EXCEPT
                     !.phase = IF codec.phase = "encoded"
                               THEN "roundtrip" ELSE "decoded",
                     !.out = dbVideoToSignedVideo(
                                 Video(NilPtr, codec.stored, 0), signOk)]
    /\ UNCHANGED <<db, s3, disk, clock, pc, loc, resp, log, classifier>>

NextCodec == CodecEncode \/ CodecSign

SpecCodec == InitCodec /\ [][NextCodec]_vars

\* ------------------------------------------------ reading the history
Done(r) == pc[r] = "Done"
IsVideo(r) == loc[r].kind = "video"
IsThumbnail(r) == loc[r].kind = "thumbnail"
Called(r, op) == \E i \in 1..Len(log[r]) : log[r][i].op = op
Failed(r, op) == \E i \in 1..Len(log[r]) : log[r][i].op = op /\ ~log[r][i].ok
Succeeded(r, op) == \E i \in 1..Len(log[r]) : log[r][i].op = op /\ log[r][i].ok
Before(r, op1, op2) ==
    \E i, j \in 1..Len(log[r]) :
        i < j /\ log[r][i].op = op1 /\ log[r][i].ok /\ log[r][j].op = op2

\* the request wrote exactly the one error response (code, msg)
RejectedWith(r, code, msg) ==
    resp[r] = <<[status |-> code, msg |-> msg, video |-> NoVideo]>>
\* the request wrote exactly one response, and it is a success
Succeeded200(r) == Len(resp[r]) = 1 /\ resp[r][1].status = StatusOK

\* the caller is authenticated, the record is fetched, and it is not theirs
NotOwner(r) ==
    /\ Succeeded(r, "ValidateJWT")
    /\ Succeeded(r, "GetVideo")
    /\ loc[r].userID # Owner

ObjectsOf(r) == {o \in s3 : \E i \in 1..Len(o.key) : o.key[i] = ToString(r)}
AssetFilesOf(r) ==
    {f \in disk : f.path[1] = "assets/" /\ f.path[2] = ToString(r)}

\* -------------------------------------------------------------- claims

\* C1: a video upload by a caller who is not the record's owner ends with
\* the authorization error, and it has not read the multipart body, created
\* no temporary file, put no object and not updated the record.
C1_NonOwnerVideoRejectedBeforeStaging ==
    \A r \in Requests :
        (IsVideo(r) /\ NotOwner(r) /\ pc[r] # "V_CheckOwner") =>
            /\ pc[r] \in {"Return", "Done"}
            /\ RejectedWith(r, StatusUnauthorized, "User is not the owner of the video")
            /\ ~Called(r, "FormFile")
            /\ ~Called(r, "CreateTemp")
            /\ ~Exists(TempPath(r))
            /\ ~Called(r, "PutObject")
            /\ ObjectsOf(r) = {}
            /\ ~Called(r, "UpdateVideo")
            /\ (\A q \in Requests : ~Called(q, "UpdateVideo"))
                   => db[TheVideoID] = Video(NilPtr, NilPtr, 0)

C1_Witness ==
    \E r \in Requests :
        /\ IsVideo(r) /\ NotOwner(r) /\ Done(r)
        /\ resp[r][1].status = StatusUnauthorized

\* C2: no response of a thumbnail or video upload carries a videoURL that
\* is a composite reference held in the record store.
C2_NoCompositeReferenceInResponse ==
    \A r \in Requests : \A i \in 1..Len(resp[r]) :
        \/ resp[r][i].video.videoURL = NilPtr
        \/ \A id \in DOMAIN db : resp[r][i].video.videoURL # db[id].videoURL

\* C3: a thumbnail upload by a caller who is not the record's owner ends
\* with the unauthorized error, no file written to asset storage and the
\* record not updated.
C3_NonOwnerThumbnailNoMutation ==
    \A r \in Requests :
        (IsThumbnail(r) /\ NotOwner(r) /\ Done(r)) =>
            /\ RejectedWith(r, StatusUnauthorized, "User is not the owner of the video")
            /\ ~Called(r, "Create")
            /\ AssetFilesOf(r) = {}
            /\ ~Called(r, "UpdateVideo")

\* C4: when a video upload that invoked the remuxer has completed, the
\* remuxer's .processing output file is absent from local storage.
C4_ProcessedFileRemoved ==
    \A r \in Requests :
        (IsVideo(r) /\ Done(r) /\ Called(r, "ffmpeg")) => ~Exists(ProcessedPath(r))

\* C5: once the staging temporary file has been created, it is removed by
\* the time the request has completed, on every exit path, and it is closed
\* before it is removed.
C5_TempFileClosedThenRemoved ==
    \A r \in Requests :
        /\ (IsVideo(r) /\ Done(r) /\ Succeeded(r, "CreateTemp")) =>
               /\ ~Exists(TempPath(r))
               /\ ~loc[r].tempOpen
               /\ Called(r, "os.Remove(tempFile)")
        /\ Called(r, "os.Remove(tempFile)") =>
               Before(r, "tempFile.Close", "os.Remove(tempFile)")

C5_Witness ==
    \E r \in Requests :
        /\ IsVideo(r) /\ Done(r) /\ Succeeded(r, "CreateTemp")
        /\ Called(r, "ffmpeg") /\ resp[r][1].status = StatusInternalServerError
        /\ ~Exists(TempPath(r))

\* C6: a thumbnail upload whose file part has no content type, or one that
\* is neither image/jpeg nor image/png, is rejected with a bad-request
\* error, writes no file to asset storage and does not update the record.
C6_BadThumbnailTypeRejected ==
    \A r \in Requests :
        (/\ IsThumbnail(r) /\ Succeeded(r, "FormFile") /\ pc[r] # "T_MediaType"
         /\ loc[r].mediaType \notin {"image/jpeg", "image/png"}) =>
            /\ pc[r] \in {"Return", "Done"}
            /\ Len(resp[r]) = 1
            /\ resp[r][1].status = StatusBadRequest
            /\ ~Called(r, "Create")
            /\ AssetFilesOf(r) = {}
            /\ ~Called(r, "GetVideo")
            /\ ~Called(r, "UpdateVideo")

C6_Witness ==
    \E r \in Requests :
        /\ IsThumbnail(r) /\ Done(r) /\ Succeeded(r, "FormFile")
        /\ loc[r].mediaType = "image/gif"
        /\ resp[r][1].status = StatusBadRequest

RemuxFailed(r) ==
    /\ Called(r, "ffmpeg")
    /\ ~(loc[r].remux.exit /\ loc[r].remux.present /\ loc[r].remux.size > 0)
StagingFailed(r) ==
    Failed(r, "CreateTemp") \/ (IsVideo(r) /\ Failed(r, "Copy")) \/ Failed(r, "Seek")
ProbeFailed(r) ==
    /\ Called(r, "ffprobe")
    /\ \/ ~loc[r].probe.run \/ ~loc[r].probe.json \/ loc[r].probe.streams = <<>>
       \/ loc[r].probe.streams[1][2] = 0

\* C8: decoding a stored reference succeeds only if it splits into exactly
\* two non-empty parts; every other non-nil value is a format error and the
\* signer is not called; a nil reference is no error.
C8_DecodeRequiresTwoNonEmptyParts ==
    codec.phase \in {"decoded", "roundtrip"} =>
        IF codec.stored = NilPtr
        THEN codec.out.err = "" /\ ~codec.out.signed
        ELSE LET parts == Split(Deref(codec.stored), Comma)
                 wellFormed == Len(parts) = 2 /\ parts[1] # <<>> /\ parts[2] # <<>>
             IN  /\ codec.out.signed => wellFormed
                 /\ ~wellFormed =>
                       /\ codec.out.err = "video URL is not in the expected format"
                       /\ codec.out.video.videoURL = codec.stored

\* C9: for every bucket and key without a comma, decoding the encoded
\* reference hands the signer exactly that bucket and that key.
C9_EncodeDecodeRoundTrip ==
    (/\ codec.phase = "roundtrip"
     /\ ~HasSep(codec.bucket, Comma)
     /\ ~HasSep(codec.key, Comma)) =>
        /\ codec.out.signed
        /\ codec.out.bucket = Ptr(codec.bucket)
        /\ codec.out.key = Ptr(codec.key)

C9_Witness ==
    /\ codec.phase = "roundtrip"
    /\ codec.bucket = <<"b", "b">>
    /\ codec.key = <<"k", "b", "k">>
    /\ codec.out.key = Ptr(codec.key)
    /\ codec.out.err = ""

\* C10: if staging, probing, remuxing or the object-store put of a video
\* upload fails, the request answers with one internal error and never
\* calls the record store's update; after a probe or remux failure it has
\* put no object either.
C10_FailureBeforePersistIsInternalError ==
    \A r \in Requests :
        (/\ IsVideo(r) /\ pc[r] \in {"Return", "Done"}
         /\ \/ StagingFailed(r) \/ ProbeFailed(r) \/ RemuxFailed(r)
            \/ Failed(r, "PutObject")) =>
            /\ Len(resp[r]) = 1
            /\ resp[r][1].status = StatusInternalServerError
            /\ ~Called(r, "UpdateVideo")
            /\ loc[r].video = db[TheVideoID] \/ \E q \in Requests \ {r} : Called(q, "UpdateVideo")
            /\ (ProbeFailed(r) \/ RemuxFailed(r)) =>
                   ~Called(r, "PutObject") /\ ObjectsOf(r) = {}

C10_Witness ==
    \E r \in Requests :
        /\ IsVideo(r) /\ Done(r) /\ Failed(r, "PutObject")
        /\ resp[r][1].status = StatusInternalServerError
        /\ db[TheVideoID].videoURL = NilPtr

\* ------------------------------------------- the aspect classifier alone
\* The classifier as a function of the first stream's geometry: ffprobe
\* reports width x height, then lines 100-117 of handlerUploadVideo derive
\* the object key of request 1.
MaxWidth == 330
MaxHeight == 180

InitClassifier ==
    /\ InitPipeline([r \in Requests |-> "video"])
    /\ codec = CodecIdle
    /\ \E w \in 0..MaxWidth, h \in 0..MaxHeight :
         classifier = [ClassifierIdle EXCEPT !.phase = "probed",
                                             !.width = w, !.height = h]

\* getVideoAspectRatio on that stream; on success the switch and the key
Classify ==
    /\ classifier.phase = "probed"
    /\ LET probe == [run |-> TRUE, json |-> TRUE,
                     streams |-> <<<<classifier.width, classifier.height>>>>]
           a == getVideoAspectRatio(probe)
       IN  classifier' =
             IF a.err # ""
             THEN [classifier EXCEPT !.phase = "failed", !.err = a.err]
             ELSE [classifier EXCEPT !.phase = "classified", !.ratio = a.ratio,
                                     !.key = Ptr(s3FileKeyOf(1, a.ratio, "video/mp4"))]
    /\ UNCHANGED <<db, s3, disk, clock, pc, loc, resp, log, codec>>

NextClassifier == Classify

SpecClassifier == InitClassifier /\ [][NextClassifier]_vars

\* C11: for height > 0 the class is exactly one of portrait, landscape,
\* other: portrait iff |width/height - 9/16| <= 0.05, landscape iff
\* |width/height - 16/9| <= 0.05, other otherwise; the two bands never both
\* hold; the object key is "<class>/<asset key>"; height = 0 is a failure
\* and derives no key.
Abs(x) == IF x < 0 THEN 0 - x ELSE x
InPortraitBand(w, h) == 20 * Abs(16 * w - 9 * h) <= 16 * h
InLandscapeBand(w, h) == 20 * Abs(9 * w - 16 * h) <= 9 * h

C11_OrientationAndKeyPrefix ==
    LET w == classifier.width
        h == classifier.height
        class == IF InPortraitBand(w, h) THEN "portrait"
                 ELSE IF InLandscapeBand(w, h) THEN "landscape" ELSE "other"
    IN  /\ classifier.phase # "probed" =>
              (classifier.phase = "failed") = (h = 0)
        /\ classifier.phase = "failed" => classifier.key = NilPtr
        /\ classifier.phase = "classified" =>
              /\ ~(InPortraitBand(w, h) /\ InLandscapeBand(w, h))
              /\ classifier.ratio \in {"9:16", "16:9", "other"}
              /\ (classifier.ratio = "9:16") = InPortraitBand(w, h)
              /\ (classifier.ratio = "16:9") = InLandscapeBand(w, h)
              /\ classifier.key = Ptr(<<class, "/">> \o getAssetPath(1, "video/mp4"))

C11_Witness ==
    /\ classifier.phase = "classified"
    /\ classifier.width = 41 /\ classifier.height = 80
    /\ classifier.key = Ptr(<<"portrait", "/", "1", ".mp4">>)


\* C12: converting a record to its signed form does not touch the record
\* store, leaves the caller's value as it was, and returns a record that
\* differs from its input in videoURL at most; it returns the input itself
\* when videoURL is nil and when decoding or signing fails.
C12_PresignIsReadTimeTransform ==
    codec.phase \in {"decoded", "roundtrip"} =>
        LET input == Video(NilPtr, codec.stored, 0)
        IN  /\ db = [id \in {TheVideoID} |-> Video(NilPtr, NilPtr, 0)]
            /\ \A r \in Requests : ~Called(r, "UpdateVideo")
            /\ codec.out.video = [input EXCEPT !.videoURL = codec.out.video.videoURL]
            /\ (codec.stored = NilPtr \/ codec.out.err # "") => codec.out.video = input
            /\ codec.out.err = "" =>
                  \/ codec.stored = NilPtr
                  \/ codec.out.video.videoURL =
                        Ptr(generatePresignedURL(Deref(codec.out.bucket),
                                                 Deref(codec.out.key), TRUE).url)
            /\ codec.phase = "roundtrip" =>
                  codec.stored = Ptr(SprintfRef(codec.bucket, codec.key))

C12_Witness ==
    /\ codec.phase = "decoded"
    /\ codec.stored = Ptr(<<"b", Comma, "k">>)
    /\ codec.out.err # ""
    /\ codec.out.signed
    /\ codec.out.video.videoURL = codec.stored


\* the step in which request r calls the record store's update
CallsUpdate(r) ==
    /\ Len(log'[r]) = Len(log[r]) + 1
    /\ log'[r][Len(log'[r])].op = "UpdateVideo"

\* C13: every record that an upload passes to the record store's update
\* carries, as updatedAt, the time of that mutation (the current clock), not
\* the value read from the store.
C13_UpdatedAtSetOnEveryMutation ==
    [][\A r \in Requests : CallsUpdate(r) => loc'[r].video.updatedAt = clock]_vars


\* the files and objects request r has made
FilesOf(r) ==
    {f \in disk : f.path = TempPath(r) \/ f.path = ProcessedPath(r)} \cup AssetFilesOf(r)

\* C14: in both handlers, when bearer-token extraction or token verification
\* fails the request is answered 401 and has not read the record store,
\* not parsed the multipart body, created no file and called the object
\* store not at all.
C14_UnauthenticatedBeforeAnyAccess ==
    \A r \in Requests :
        (Failed(r, "GetBearerToken") \/ Failed(r, "ValidateJWT")) =>
            /\ pc[r] \in {"Return", "Done"}
            /\ Len(resp[r]) = 1
            /\ resp[r][1].status = StatusUnauthorized
            /\ resp[r][1].msg \in {"Couldn't find JWT", "Couldn't validate JWT"}
            /\ \A op \in {"GetVideo", "UpdateVideo", "ParseMultipartForm", "FormFile",
                          "CreateTemp", "Create", "Copy", "ffprobe", "ffmpeg",
                          "PutObject", "Presign"} : ~Called(r, op)
            /\ FilesOf(r) = {}
            /\ ObjectsOf(r) = {}

C14_Witness ==
    \E r, q \in Requests :
        /\ IsVideo(r) /\ Done(r) /\ Failed(r, "ValidateJWT")
        /\ IsThumbnail(q) /\ Done(q) /\ Failed(q, "GetBearerToken")
        /\ resp[r][1].status = StatusUnauthorized
        /\ resp[q][1].status = StatusUnauthorized


\* the object request r puts, and the reference it persists
ObjectOf(r) == [bucket |-> s3Bucket, key |-> loc[r].s3FileKey, contentType |-> "video/mp4"]
RefOf(r) == Ptr(SprintfRef(s3Bucket, loc[r].s3FileKey))
InitialRecord == Video(NilPtr, NilPtr, 0)

\* C15: every composite reference in a record's videoURL decodes to a
\* (bucket, key) whose object is in the object store; every object that was
\* put is still there, under a key of its own; and a put followed by a
\* failed record update leaves the object without a reference to it.
C15_NoDanglingReference ==
    /\ \A id \in DOMAIN db :
         db[id].videoURL # NilPtr =>
            LET parts == Split(Deref(db[id].videoURL), Comma)
            IN  /\ Len(parts) = 2
                /\ \E o \in s3 : o.bucket = parts[1] /\ o.key = parts[2]
    /\ \A r \in Requests : Succeeded(r, "PutObject") => ObjectOf(r) \in s3
    /\ Cardinality({<<o.bucket, o.key>> : o \in s3}) =
           Cardinality({r \in Requests : Succeeded(r, "PutObject")})
    /\ \A r \in Requests :
         (Succeeded(r, "PutObject") /\ Failed(r, "UpdateVideo")) =>
            /\ db[TheVideoID].videoURL # RefOf(r)
            /\ (\A q \in Requests \ {r} : ~Called(q, "UpdateVideo"))
                  => db[TheVideoID] = InitialRecord

C15_Witness ==
    \E r \in Requests :
        /\ IsVideo(r) /\ Done(r)
        /\ Succeeded(r, "PutObject") /\ Failed(r, "UpdateVideo")
        /\ ObjectOf(r) \in s3
        /\ db[TheVideoID].videoURL # NilPtr
        /\ db[TheVideoID].videoURL # RefOf(r)


\* the step in which request r's call of the record store's update succeeds
UpdateSucceeds(r) == CallsUpdate(r) /\ log'[r][Len(log'[r])].ok

\* C16: two video uploads to the same record take no lock; each successful
\* update overwrites the stored videoURL with its own reference whatever
\* the record holds, the record changes in no other step, and once both
\* uploads have succeeded both objects exist and the record holds the
\* reference of one of the two, the one that updated last.
C16_LastWriterWins ==
    /\ [](\A r, q \in Requests :
            (r # q /\ IsVideo(r) /\ IsVideo(q) /\ Succeeded200(r) /\ Succeeded200(q)) =>
                /\ ObjectOf(r) \in s3 /\ ObjectOf(q) \in s3
                /\ RefOf(r) # RefOf(q)
                /\ db[TheVideoID].videoURL \in {RefOf(r), RefOf(q)})
    /\ [][/\ \A r \in Requests :
               (IsVideo(r) /\ UpdateSucceeds(r)) => db'[TheVideoID].videoURL = RefOf(r)
          /\ (\A r \in Requests : ~UpdateSucceeds(r)) => db' = db]_vars

C16_Witness ==
    \E r, q \in Requests :
        /\ r < q /\ IsVideo(r) /\ IsVideo(q)
        /\ Done(r) /\ Done(q) /\ Succeeded200(r) /\ Succeeded200(q)
        /\ ObjectOf(r) \in s3 /\ ObjectOf(q) \in s3
        /\ db[TheVideoID].videoURL = RefOf(r)


\* C17: the remuxer hands back its output path exactly when the process
\* exited successfully, the output file exists and it is not empty; in every
\* other case it hands back no path, and the upload answers with the remux
\* error without opening the output or putting an object.
C17_RemuxPostConditions ==
    \A r \in Requests :
        Called(r, "ffmpeg") =>
            LET out == loc[r].remux
                allHold == out.exit /\ out.present /\ out.size > 0
            IN  /\ (loc[r].processedFilePath = ProcessedPath(r)) = allHold
                /\ ~allHold =>
                      /\ loc[r].processedFilePath = <<>>
                      /\ pc[r] \in {"Return", "Done"}
                      /\ RejectedWith(r, StatusInternalServerError,
                                      "Couldn't process video for fast start")
                      /\ ~Called(r, "Open")
                      /\ ~Called(r, "PutObject")
                      /\ ObjectsOf(r) = {}

C17_Witness ==
    \E r \in Requests :
        /\ Done(r) /\ Called(r, "ffmpeg")
        /\ loc[r].remux = [exit |-> FALSE, present |-> TRUE, size |-> 1]
        /\ loc[r].processedFilePath = <<>>
        /\ s3 = {}


\* the thumbnail URL request r persists
ThumbnailOf(r) == Ptr(getAssetURL(loc[r].assetPath))

\* C18 as stated: once a thumbnail upload and a video upload to the record
\* have both succeeded, the stored record holds the thumbnailURL of the one
\* and the videoURL of the other.
C18_BothFieldsKept ==
    \A t, v \in Requests :
        (IsThumbnail(t) /\ IsVideo(v) /\ Succeeded200(t) /\ Succeeded200(v)) =>
            /\ db[TheVideoID].thumbnailURL = ThumbnailOf(t)
            /\ db[TheVideoID].videoURL = RefOf(v)

\* C18 as amended: once both have succeeded, the stored record is the whole
\* record one of the two wrote (the last writer's): it holds that upload's
\* URL, and in the other field whatever that upload had read, which is the
\* other upload's URL or nothing.
C18_LastWriterRecordKept ==
    \A t, v \in Requests :
        (IsThumbnail(t) /\ IsVideo(v) /\ Succeeded200(t) /\ Succeeded200(v)) =>
            \/ /\ db[TheVideoID] = loc[v].video
               /\ db[TheVideoID].videoURL = RefOf(v)
               /\ db[TheVideoID].thumbnailURL \in {NilPtr, ThumbnailOf(t)}
            \/ /\ db[TheVideoID] = loc[t].video
               /\ db[TheVideoID].thumbnailURL = ThumbnailOf(t)
               /\ db[TheVideoID].videoURL \in {NilPtr, RefOf(v)}

C18_Witness ==
    \E t, v \in Requests :
        /\ IsThumbnail(t) /\ IsVideo(v) /\ Done(t) /\ Done(v)
        /\ Succeeded200(t) /\ Succeeded200(v)
        /\ db[TheVideoID].thumbnailURL = ThumbnailOf(t)
        /\ db[TheVideoID].videoURL = NilPtr

\* the other requests have not started
RunsAlone(r) == \A q \in Requests \ {r} : log[q] = <<>>
EndedWithError(r) == Done(r) /\ Len(resp[r]) = 1 /\ resp[r][1].status # StatusOK

\* C19 as stated: a video upload run alone that ends with an error response
\* leaves the record as it was.
C19_ErrorMeansNoRecordChange ==
    \A r \in Requests :
        (IsVideo(r) /\ RunsAlone(r) /\ EndedWithError(r)) =>
            db[TheVideoID] = InitialRecord

\* C19 as amended: a video upload run alone that ends with an error response
\* leaves the record as it was unless the error is the presigning failure of
\* the last step; then the answer is 500 and the record holds the new
\* composite reference.
C19_ErrorBeforePresignMeansNoRecordChange ==
    \A r \in Requests :
        (IsVideo(r) /\ RunsAlone(r) /\ EndedWithError(r)) =>
            IF Failed(r, "Presign")
            THEN /\ RejectedWith(r, StatusInternalServerError,
                                 "Couldn't convert video to signed video")
                 /\ db[TheVideoID] = [InitialRecord EXCEPT !.videoURL = RefOf(r)]
            ELSE db[TheVideoID] = InitialRecord

C19_Witness ==
    \E r \in Requests :
        /\ IsVideo(r) /\ RunsAlone(r) /\ EndedWithError(r)
        /\ Failed(r, "Presign")
        /\ db[TheVideoID].videoURL = RefOf(r)


Returning(r) == pc[r] \in {"Return", "Done"}

\* C20: every request eventually finishes, and it has written no response
\* while its handler runs and exactly one (the error response or the success
\* response) from the moment the handler returns.
C20_FinishesWithOneResponse ==
    /\ \A r \in Requests : <>Done(r)
    /\ [](\A r \in Requests :
            /\ Len(resp[r]) = (IF Returning(r) THEN 1 ELSE 0)
            /\ Done(r) => (resp[r][1].status = StatusOK <=> resp[r][1].msg = ""))

C20_Witness ==
    \E t, v \in Requests :
        /\ IsThumbnail(t) /\ IsVideo(v) /\ Done(t) /\ Done(v)
        /\ Len(resp[t]) = 1 /\ resp[t][1].status = StatusOK
        /\ Len(resp[v]) = 1 /\ resp[v][1].status = StatusInternalServerError
        /\ Failed(v, "Presign")

====
